---- MODULE Spec2Model ----
(***************************************************************************)
(* The upload pipeline of raspberry_pi_meshtastic_uploader.py:             *)
(* MeshtasticTelemetryUploader (upload_queue, queue_lock, the worker       *)
(* thread, _upload_batch, get_stats, shutdown) with the threads that call  *)
(* it: packet-callback threads running add_telemetry, the worker thread    *)
(* running _upload_worker, and the main thread, which runs get_stats from  *)
(* the receiver loop and the signal handler that calls shutdown().         *)
(*                                                                         *)
(* A record is identified by a number given when add_telemetry formats it. *)
(* queue_lock is a threading.Lock: not reentrant, it names its holder.     *)
(*                                                                         *)
(* PacketSpec adds MeshtasticReceiver._on_receive with add_telemetry's     *)
(* three metrics groups, FormatSpec the three _format_*_metrics functions, *)
(* and SupabaseSpec the SupabaseUploader of raspberry_pi_supabase_uploader *)
(* .py (pending_readings, add_reading, upload_batch) with its two callers. *)
(***************************************************************************)
EXTENDS Naturals, Sequences, FiniteSets

\* Number of records the packet callbacks create in one run of the model.
MaxRecords == 3

\* UPLOAD_BATCH_SIZE = int(os.getenv('UPLOAD_BATCH_SIZE', '10')): configured to 2.
UPLOAD_BATCH_SIZE == 2

\* Threads that run add_telemetry (the radio library's delivery threads).
Producers == {"p1", "p2"}

NoThread == "none"

\* How the teardown inside receiver.stop() ends: the interface is closed, or
\* pub.unsubscribe or interface.close() raises.
StopOutcomes == {"closed", "error"}

\* What self.upload_session.post(...) can produce: a response with a status
\* code, a requests.exceptions.RequestException, or any other Exception.
StatusCodes == {200, 201, 204, 500}

NoResponse == [kind |-> "none", code |-> 0]

Outcomes ==
    [kind : {"status"}, code : StatusCodes]
        \cup {[kind |-> "RequestException", code |-> 0],
              [kind |-> "Exception", code |-> 0]}

VARIABLES
    upload_queue,    \* self.upload_queue: sequence of record ids
    queue_lock,      \* holder of self.queue_lock, or NoThread
    running,         \* self.running
    total_uploaded,  \* self.total_uploaded
    nextId,          \* id of the next record add_telemetry formats
    apc,             \* per producer: position in add_telemetry
    arec,            \* per producer: the formatted record it is about to append
    wpc,             \* worker thread: position in _upload_worker/_upload_batch
    wbatch,          \* worker thread: batch
    wresp,           \* worker thread: outcome of the post of its batch
    wload,           \* worker thread: self.total_uploaded as loaded by +=
    wlate,           \* history: the current tick's sleep ended after running = False
    wcalls,          \* history: upload calls of the worker since its last interval sleep
    mpc,             \* main thread: position in the receiver loop (get_stats)
    spc,             \* main thread: position in signal_handler/shutdown
    sbatch,          \* shutdown: the records sent by the final upload call
    sresp,           \* shutdown: outcome of the final post
    sload,           \* shutdown: self.total_uploaded as loaded by +=
    scalls,          \* history: upload calls issued by shutdown()
    delivered,       \* history: records of uploads answered with success
    retired,         \* history: records whose upload call ended without requeue
    fgroup,          \* normalizer: the metrics group being formatted
    fmetrics,        \* normalizer: the metrics dict of that group (keys present -> value)
    fpacket,         \* normalizer: the packet's top-level radio fields
    frecord,         \* normalizer: the record returned by the _format_* function
    receiver_running,  \* MeshtasticReceiver.running
    interface,       \* MeshtasticReceiver.interface: "open" or "closed"
    packets_received,  \* MeshtasticReceiver.packets_received
    telemetry_packets, \* MeshtasticReceiver.telemetry_packets
    rpc,             \* callback thread: position in _on_receive/add_telemetry
    rpacket,         \* callback thread: the packet being handled
    rseen,           \* history: packets delivered to _on_receive
    pending_readings,  \* SupabaseUploader.pending_readings: sequence of reading ids
    upc,             \* per thread: position in add_reading/upload_batch
    payload,         \* per thread: the payload upload_batch built
    uresp,           \* per thread: outcome of the post of its payload
    nextReading,     \* id of the next reading add_reading receives
    acked            \* history: readings of payloads acknowledged with status 200

vars == <<upload_queue, queue_lock, running, total_uploaded, nextId, apc, arec,
          wpc, wbatch, wresp, wload, wlate, mpc, spc, sbatch, sresp, sload,
          scalls, delivered, retired, wcalls, fgroup, fmetrics, fpacket,
          frecord, receiver_running, interface, packets_received,
          telemetry_packets, rpc, rpacket, rseen, pending_readings, upc,
          payload, uresp, nextReading, acked>>

producerVars == <<nextId, apc, arec>>
workerVars == <<wpc, wbatch, wresp, wload, wlate, wcalls>>
formatVars == <<fgroup, fmetrics, fpacket, frecord>>
receiverVars == <<receiver_running, interface>>
packetVars == <<packets_received, telemetry_packets, rpc, rpacket, rseen>>
supabaseVars == <<pending_readings, upc, payload, uresp, nextReading, acked>>
mainVars == <<mpc, spc, sbatch, sresp, sload, scalls>>

----------------------------------------------------------------------------
\* Helpers

Range(s) == {s[i] : i \in 1..Len(s)}

Min(a, b) == IF a < b THEN a ELSE b

\* s[:n]
Take(s, n) == SubSeq(s, 1, Min(n, Len(s)))

\* s after del s[:n]
Drop(s, n) == SubSeq(s, Min(n, Len(s)) + 1, Len(s))

\* response.status_code in (200, 201)
IsSuccess(resp) == resp.kind = "status" /\ resp.code \in {200, 201}

\* the branches of _upload_batch that requeue: the else branch of the status
\* test, and except requests.exceptions.RequestException
IsRequeued(resp) ==
    \/ resp.kind = "status" /\ ~IsSuccess(resp)
    \/ resp.kind = "RequestException"

\* a slice without the batch size: the batch is the whole queue
DrainWholeQueue(q) == q

\* a slice that takes the batch from the tail of the queue
DrainBatchFromTail(q) == SubSeq(q, Len(q) - Min(UPLOAD_BATCH_SIZE, Len(q)) + 1, Len(q))

\* batch = self.upload_queue[:UPLOAD_BATCH_SIZE]
DrainBatch(q) == Take(q, UPLOAD_BATCH_SIZE)

\* a del that removes one record more than the batch took
DrainRestOneMore(q) == Drop(q, UPLOAD_BATCH_SIZE + 1)

\* del self.upload_queue[:UPLOAD_BATCH_SIZE]
DrainRest(q) == Drop(q, UPLOAD_BATCH_SIZE)

\* a requeue that puts the batch back at the head of the queue
RequeueAtHead(q, b) == b \o q

\* self.upload_queue.extend(batch)
Requeue(q, b) == q \o b

\* an insert at the head of the queue instead of an append
EnqueueAtHead(q, r) == <<r>> \o q

\* self.upload_queue.append(record)
Enqueue(q, r) == Append(q, r)

\* a final flush that takes a batch of the configured size
FlushBatchCapped(q) == Take(q, UPLOAD_BATCH_SIZE)

\* self._upload_batch(self.upload_queue): the final flush passes the whole queue
FlushBatch(q) == q

\* self.total_uploaded += len(batch), the store of the loaded value plus len
Counted(loaded, b) == loaded + Len(b)

----------------------------------------------------------------------------
\* The record normalizer: _format_device_metrics, _format_environment_metrics
\* and _format_air_quality_metrics. A dict is a function from the keys it has
\* to their values; a field of a record is None or holds a value.

\* readings a metrics dict or a packet can hold; 0 is the falsy one
Values == {0, 5}

None == [some |-> FALSE, v |-> 0]

Some(x) == [some |-> TRUE, v |-> x]

\* the keys the three functions read from their metrics dict
DeviceKeys ==
    {"voltage", "batteryLevel", "airUtilTx", "uptimeSeconds", "channelUtilization"}

EnvironmentKeys ==
    {"temperature", "relativeHumidity", "barometricPressure", "gasResistance",
     "iaq", "windDirection", "windSpeed"}

AirQualityKeys ==
    {"pm25Standard", "pm25Environmental", "pm10Standard", "pm10Environmental",
     "pm100Standard", "pm100Environmental"}

\* the keys they read from the packet
PacketKeys == {"rxRssi", "rxSnr", "hopLimit"}

\* the metrics groups of a telemetry object
Groups == {"deviceMetrics", "environmentMetrics", "airQualityMetrics"}

GroupKeys(g) ==
    CASE g = "deviceMetrics" -> DeviceKeys
      [] g = "environmentMetrics" -> EnvironmentKeys
      [] g = "airQualityMetrics" -> AirQualityKeys

\* the dicts with some of the keys K
Dicts(K) == UNION {[D -> Values] : D \in SUBSET K}

\* an empty dict, and the absence of a record
EmptyDict == [k \in {} |-> 0]

NoRecord == [k \in {} |-> None]

\* d.get(k)
Get(d, k) == IF k \in DOMAIN d THEN Some(d[k]) ELSE None

\* bool(x) of a field: None and 0 are falsy
Truthy(x) == x.some /\ x.v # 0

\* a or b
Or(a, b) == IF Truthy(a) THEN a ELSE b

\* the particulate reading: metrics.get(standard) or metrics.get(environmental)
ParticulateReading(metrics, standard, environmental) ==
    Or(Get(metrics, standard), Get(metrics, environmental))

\* a PM1 field read with the fallback of the other particulate fields
Pm1ReadingWithFallback(metrics) ==
    ParticulateReading(metrics, "pm10Standard", "pm10Environmental")

\* 'pm1_ugm3': metrics.get('pm10Standard')
Pm1Reading(metrics) == Get(metrics, "pm10Standard")

\* a device field read with `metrics.get(key) or None`: a reading of 0 is lost
DeviceReadingOrNone(metrics, key) == Or(Get(metrics, key), None)

\* one value of a device field: metrics.get(key)
DeviceReading(metrics, key) == Get(metrics, key)

\* the dict _format_device_metrics returns
format_device_metrics(metrics, packet) ==
    [sensor_id |-> Some("node_id"),
     timestamp |-> Some("timestamp"),
     telemetry_type |-> Some("device"),
     location |-> None,
     voltage |-> DeviceReading(metrics, "voltage"),
     battery_level |-> DeviceReading(metrics, "batteryLevel"),
     air_util_tx |-> DeviceReading(metrics, "airUtilTx"),
     uptime_seconds |-> DeviceReading(metrics, "uptimeSeconds"),
     channel_utilization |-> DeviceReading(metrics, "channelUtilization"),
     temperature_c |-> None,
     relative_humidity_pct |-> None,
     barometric_pressure |-> None,
     gas_resistance |-> None,
     iaq |-> None,
     wind_direction |-> None,
     wind_speed |-> None,
     pm25_ugm3 |-> None,
     pm10_ugm3 |-> None,
     pm100_ugm3 |-> None,
     pm1_ugm3 |-> None,
     ch3_voltage |-> None,
     ch3_current |-> None,
     rssi |-> Get(packet, "rxRssi"),
     snr |-> Get(packet, "rxSnr"),
     hop_limit |-> Get(packet, "hopLimit"),
     hop_start |-> None,
     raw_data |-> Some(metrics)]

\* an environment record that leaves out the fields of the other groups
\* instead of setting them to None
format_environment_metrics_sparse(metrics, packet) ==
    [sensor_id |-> Some("node_id"),
     timestamp |-> Some("timestamp"),
     telemetry_type |-> Some("environment"),
     location |-> None,
     temperature_c |-> Get(metrics, "temperature"),
     relative_humidity_pct |-> Get(metrics, "relativeHumidity"),
     barometric_pressure |-> Get(metrics, "barometricPressure"),
     gas_resistance |-> Get(metrics, "gasResistance"),
     iaq |-> Get(metrics, "iaq"),
     wind_direction |-> Get(metrics, "windDirection"),
     wind_speed |-> Get(metrics, "windSpeed"),
     rssi |-> Get(packet, "rxRssi"),
     snr |-> Get(packet, "rxSnr"),
     hop_limit |-> None,
     hop_start |-> None,
     raw_data |-> Some(metrics)]

\* the dict _format_environment_metrics returns
format_environment_metrics(metrics, packet) ==
    [sensor_id |-> Some("node_id"),
     timestamp |-> Some("timestamp"),
     telemetry_type |-> Some("environment"),
     location |-> None,
     voltage |-> None,
     battery_level |-> None,
     air_util_tx |-> None,
     uptime_seconds |-> None,
     channel_utilization |-> None,
     temperature_c |-> Get(metrics, "temperature"),
     relative_humidity_pct |-> Get(metrics, "relativeHumidity"),
     barometric_pressure |-> Get(metrics, "barometricPressure"),
     gas_resistance |-> Get(metrics, "gasResistance"),
     iaq |-> Get(metrics, "iaq"),
     wind_direction |-> Get(metrics, "windDirection"),
     wind_speed |-> Get(metrics, "windSpeed"),
     pm25_ugm3 |-> None,
     pm10_ugm3 |-> None,
     pm100_ugm3 |-> None,
     pm1_ugm3 |-> None,
     ch3_voltage |-> None,
     ch3_current |-> None,
     rssi |-> Get(packet, "rxRssi"),
     snr |-> Get(packet, "rxSnr"),
     hop_limit |-> None,
     hop_start |-> None,
     raw_data |-> Some(metrics)]

\* the dict _format_air_quality_metrics returns
format_air_quality_metrics(metrics, packet) ==
    [sensor_id |-> Some("node_id"),
     timestamp |-> Some("timestamp"),
     telemetry_type |-> Some("air_quality"),
     location |-> None,
     voltage |-> None,
     battery_level |-> None,
     air_util_tx |-> None,
     uptime_seconds |-> None,
     channel_utilization |-> None,
     temperature_c |-> None,
     relative_humidity_pct |-> None,
     barometric_pressure |-> None,
     gas_resistance |-> None,
     iaq |-> None,
     wind_direction |-> None,
     wind_speed |-> None,
     pm25_ugm3 |-> ParticulateReading(metrics, "pm25Standard", "pm25Environmental"),
     pm10_ugm3 |-> ParticulateReading(metrics, "pm10Standard", "pm10Environmental"),
     pm100_ugm3 |-> ParticulateReading(metrics, "pm100Standard", "pm100Environmental"),
     pm1_ugm3 |-> Pm1Reading(metrics),
     ch3_voltage |-> None,
     ch3_current |-> None,
     rssi |-> Get(packet, "rxRssi"),
     snr |-> Get(packet, "rxSnr"),
     hop_limit |-> None,
     hop_start |-> None,
     raw_data |-> Some(metrics)]

----------------------------------------------------------------------------
\* Packets as MeshtasticReceiver._on_receive gets them. A packet has a decoded
\* portnum (or none) and may carry a telemetry object; the telemetry object has
\* some of the three metrics groups, and each group's value is a dict or a
\* value that is no dict (on which metrics.get raises).

\* Number of packets the radio delivers in one run of the model.
MaxPackets == 2

Portnums == {"TELEMETRY_APP", "TEXT_MESSAGE_APP", "absent"}

GroupShapes == {"dict", "malformed"}

\* the order in which add_telemetry looks at the groups
GroupOrder == <<"deviceMetrics", "environmentMetrics", "airQualityMetrics">>

\* a packet whose decoded part has no 'telemetry' key
NoTelemetry == [has |-> FALSE, groups |-> EmptyDict]

Telemetries ==
    {NoTelemetry}
        \cup {[has |-> TRUE, groups |-> f] :
                 f \in UNION {[D -> GroupShapes] : D \in SUBSET Groups}}

Packets == [portnum : Portnums, telemetry : Telemetries]

NoPacket == [portnum |-> "absent", telemetry |-> NoTelemetry]

\* 'telemetry' in packet['decoded'] and g in telemetry
GroupPresent(packet, g) ==
    packet.telemetry.has /\ g \in DOMAIN packet.telemetry.groups

\* the _format_* function returns a record: metrics.get works on a dict; on any
\* other value it raises, the function's except clause returns None
FormatReturnsRecord(packet, g) == packet.telemetry.groups[g] = "dict"

\* the record add_telemetry makes of group g of the n-th packet
PacketRecord(n, g) == [packet |-> n, group |-> g]

----------------------------------------------------------------------------
\* SupabaseUploader of raspberry_pi_supabase_uploader.py: pending_readings has
\* no lock; add_reading runs on the packet-callback thread, the periodic
\* upload_batch on the main thread of MeshtasticDataReader.run.

\* Number of readings the callbacks add in one run of the model.
MaxReadings == 3

\* BATCH_SIZE = int(os.getenv('BATCH_SIZE', '50')): configured to 2.
BATCH_SIZE == 2

UploadThreads == {"callback", "main"}

\* What session.post(...) and response.json() can produce in upload_batch: a
\* response with a status code whose body is a JSON object or not, or an
\* exception raised by the post.
NoAnswer == [kind |-> "none", code |-> 0, json |-> FALSE]

Answers ==
    [kind : {"status"}, code : {200, 201, 500}, json : BOOLEAN]
        \cup {[kind |-> "Exception", code |-> 0, json |-> FALSE]}

\* response.status_code == 200, and response.json() returns a dict so that
\* result.get('message', 'OK') is evaluated without an exception
Cleared(resp) == resp.kind = "status" /\ resp.code = 200 /\ resp.json

----------------------------------------------------------------------------
\* the uploader after __init__: empty queue, worker thread started
PipelineInit ==
    /\ upload_queue = <<>>
    /\ queue_lock = NoThread
    /\ running = TRUE
    /\ total_uploaded = 0
    /\ nextId = 1
    /\ apc = [p \in Producers |-> "idle"]
    /\ arec = [p \in Producers |-> 0]
    /\ wpc = "loop"
    /\ wbatch = <<>>
    /\ wresp = NoResponse
    /\ wload = 0
    /\ wlate = FALSE
    /\ wcalls = 0
    /\ mpc = "loop"
    /\ spc = "none"
    /\ sbatch = <<>>
    /\ sresp = NoResponse
    /\ sload = 0
    /\ scalls = 0
    /\ delivered = {}
    /\ retired = {}

\* MeshtasticReceiver after __init__ and start(): interface open, no packet yet
ReceiverInit ==
    /\ receiver_running = TRUE
    /\ interface = "open"
    /\ packets_received = 0
    /\ telemetry_packets = 0
    /\ rpc = "idle"
    /\ rpacket = NoPacket
    /\ rseen = 0

\* SupabaseUploader after __init__: nothing pending
SupabaseInit ==
    /\ pending_readings = <<>>
    /\ upc = [t \in UploadThreads |-> "idle"]
    /\ payload = [t \in UploadThreads |-> <<>>]
    /\ uresp = [t \in UploadThreads |-> NoAnswer]
    /\ nextReading = 1
    /\ acked = {}

\* no record is being formatted
Init ==
    /\ PipelineInit
    /\ fgroup = "none"
    /\ fmetrics = EmptyDict
    /\ fpacket = EmptyDict
    /\ frecord = NoRecord
    /\ ReceiverInit
    /\ SupabaseInit

----------------------------------------------------------------------------
\* add_telemetry, on a packet-callback thread

\* one metrics group of the packet is formatted into a record
AddFormat(p) ==
    /\ apc[p] = "idle"
    /\ nextId <= MaxRecords
    /\ arec' = [arec EXCEPT ![p] = nextId]
    /\ nextId' = nextId + 1
    /\ apc' = [apc EXCEPT ![p] = "acquire"]
    /\ UNCHANGED <<upload_queue, queue_lock, running, total_uploaded,
                   workerVars, mainVars, delivered, retired>>
    /\ UNCHANGED <<formatVars, receiverVars, packetVars, supabaseVars>>

\* with self.queue_lock:
AddAcquire(p) ==
    /\ apc[p] = "acquire"
    /\ queue_lock = NoThread
    /\ queue_lock' = p
    /\ apc' = [apc EXCEPT ![p] = "append"]
    /\ UNCHANGED <<upload_queue, running, total_uploaded, nextId, arec,
                   workerVars, mainVars, delivered, retired>>
    /\ UNCHANGED <<formatVars, receiverVars, packetVars, supabaseVars>>

\* self.upload_queue.append(...), and the lock is released
AddAppend(p) ==
    /\ apc[p] = "append"
    /\ upload_queue' = Enqueue(upload_queue, arec[p])
    /\ queue_lock' = NoThread
    /\ apc' = [apc EXCEPT ![p] = "idle"]
    /\ arec' = [arec EXCEPT ![p] = 0]
    /\ UNCHANGED <<running, total_uploaded, nextId,
                   workerVars, mainVars, delivered, retired>>
    /\ UNCHANGED <<formatVars, receiverVars, packetVars, supabaseVars>>

----------------------------------------------------------------------------
\* _upload_worker, on the worker thread

\* while self.running:
WorkerLoop ==
    /\ wpc = "loop"
    /\ wpc' = IF running THEN "sleep" ELSE "done"
    /\ UNCHANGED <<upload_queue, queue_lock, running, total_uploaded,
                   producerVars, wbatch, wresp, wload, wlate, wcalls, mainVars,
                   delivered, retired>>
    /\ UNCHANGED <<formatVars, receiverVars, packetVars, supabaseVars>>

\* time.sleep(UPLOAD_INTERVAL_SEC) returns: the tick begins
WorkerWake ==
    /\ wpc = "sleep"
    /\ wpc' = "acquire"
    /\ wlate' = ~running
    /\ wcalls' = 0
    /\ UNCHANGED <<upload_queue, queue_lock, running, total_uploaded,
                   producerVars, wbatch, wresp, wload, mainVars,
                   delivered, retired>>
    /\ UNCHANGED <<formatVars, receiverVars, packetVars, supabaseVars>>

\* a statement of the tick raises before a batch is taken (time.sleep itself):
\* the loop's except clause catches the exception and logs it
WorkerError ==
    /\ wpc = "sleep"
    /\ wpc' = "pause"
    /\ UNCHANGED <<upload_queue, queue_lock, running, total_uploaded,
                   producerVars, wbatch, wresp, wload, wlate, wcalls, mainVars,
                   delivered, retired>>
    /\ UNCHANGED <<formatVars, receiverVars, packetVars, supabaseVars>>

\* an exception that is not caught in the loop: the thread's function ends
WorkerPauseEnds ==
    /\ wpc = "pause"
    /\ wpc' = "done"
    /\ UNCHANGED <<upload_queue, queue_lock, running, total_uploaded,
                   producerVars, wbatch, wresp, wload, wlate, wcalls, mainVars,
                   delivered, retired>>
    /\ UNCHANGED <<formatVars, receiverVars, packetVars, supabaseVars>>

\* time.sleep(5) in the except clause returns: back to the loop test
WorkerPause ==
    /\ wpc = "pause"
    /\ wpc' = "loop"
    /\ UNCHANGED <<upload_queue, queue_lock, running, total_uploaded,
                   producerVars, wbatch, wresp, wload, wlate, wcalls, mainVars,
                   delivered, retired>>
    /\ UNCHANGED <<formatVars, receiverVars, packetVars, supabaseVars>>

\* a worker that enters the block without waiting for the lock to be free
WorkerAcquireNoWait ==
    /\ wpc = "acquire"
    /\ queue_lock' = "worker"
    /\ wpc' = "drain"
    /\ UNCHANGED <<upload_queue, running, total_uploaded, producerVars,
                   wbatch, wresp, wload, wlate, wcalls, mainVars, delivered, retired>>
    /\ UNCHANGED <<formatVars, receiverVars, packetVars, supabaseVars>>

\* with self.queue_lock:
WorkerAcquire ==
    /\ wpc = "acquire"
    /\ queue_lock = NoThread
    /\ queue_lock' = "worker"
    /\ wpc' = "drain"
    /\ UNCHANGED <<upload_queue, running, total_uploaded, producerVars,
                   wbatch, wresp, wload, wlate, wcalls, mainVars, delivered, retired>>
    /\ UNCHANGED <<formatVars, receiverVars, packetVars, supabaseVars>>

\* the body of the with block: continue on an empty queue, else take a batch;
\* leaving the block releases the lock; a batch taken is posted
WorkerDrain ==
    /\ wpc = "drain"
    /\ queue_lock' = NoThread
    /\ IF Len(upload_queue) = 0
       THEN /\ wpc' = "loop"
            /\ UNCHANGED <<upload_queue, wbatch, wcalls>>
       ELSE /\ wbatch' = DrainBatch(upload_queue)
            /\ upload_queue' = DrainRest(upload_queue)
            /\ wcalls' = wcalls + 1
            /\ wpc' = "post"
    /\ UNCHANGED <<running, total_uploaded, producerVars, wresp, wload, wlate,
                   mainVars, delivered, retired>>
    /\ UNCHANGED <<formatVars, receiverVars, packetVars, supabaseVars>>

\* self.upload_session.post(url, json=batch, timeout=30) ends
WorkerResponse(o) ==
    /\ wpc = "post"
    /\ wresp' = o
    /\ wpc' = "handle"
    /\ UNCHANGED <<upload_queue, queue_lock, running, total_uploaded,
                   producerVars, wbatch, wload, wlate, wcalls, mainVars,
                   delivered, retired>>
    /\ UNCHANGED <<formatVars, receiverVars, packetVars, supabaseVars>>

\* _upload_batch after the post: the status test and the except clauses
WorkerHandle ==
    /\ wpc = "handle"
    /\ IF IsSuccess(wresp)
       THEN /\ wload' = total_uploaded
            /\ wpc' = "count"
            /\ delivered' = delivered \cup Range(wbatch)
            /\ UNCHANGED <<wbatch, wresp, retired>>
       ELSE IF IsRequeued(wresp)
       THEN /\ wpc' = "requeue_acquire"
            /\ UNCHANGED <<wbatch, wresp, wload, delivered, retired>>
       ELSE /\ wpc' = "loop"
            /\ wbatch' = <<>>
            /\ wresp' = NoResponse
            /\ retired' = retired \cup Range(wbatch)
            /\ UNCHANGED <<wload, delivered>>
    /\ UNCHANGED <<upload_queue, queue_lock, running, total_uploaded,
                   producerVars, wlate, wcalls, mainVars>>
    /\ UNCHANGED <<formatVars, receiverVars, packetVars, supabaseVars>>

\* self.total_uploaded += len(batch): the store
WorkerCount ==
    /\ wpc = "count"
    /\ total_uploaded' = Counted(wload, wbatch)
    /\ retired' = retired \cup Range(wbatch)
    /\ wbatch' = <<>>
    /\ wresp' = NoResponse
    /\ wload' = 0
    /\ wpc' = "loop"
    /\ UNCHANGED <<upload_queue, queue_lock, running, producerVars, wlate, wcalls,
                   mainVars, delivered>>
    /\ UNCHANGED <<formatVars, receiverVars, packetVars, supabaseVars>>

\* with self.queue_lock: (re-queue failed items)
WorkerRequeueAcquire ==
    /\ wpc = "requeue_acquire"
    /\ queue_lock = NoThread
    /\ queue_lock' = "worker"
    /\ wpc' = "requeue"
    /\ UNCHANGED <<upload_queue, running, total_uploaded, producerVars,
                   wbatch, wresp, wload, wlate, wcalls, mainVars, delivered, retired>>
    /\ UNCHANGED <<formatVars, receiverVars, packetVars, supabaseVars>>

\* a requeue followed by an immediate retry: the worker goes back to the
\* drain without the interval sleep
WorkerRequeueRetry ==
    /\ wpc = "requeue"
    /\ upload_queue' = Requeue(upload_queue, wbatch)
    /\ queue_lock' = NoThread
    /\ wbatch' = <<>>
    /\ wresp' = NoResponse
    /\ wpc' = "acquire"
    /\ UNCHANGED <<running, total_uploaded, producerVars, wload, wlate, wcalls,
                   mainVars, delivered, retired>>
    /\ UNCHANGED <<formatVars, receiverVars, packetVars, supabaseVars>>

\* self.upload_queue.extend(batch), and the lock is released
WorkerRequeue ==
    /\ wpc = "requeue"
    /\ upload_queue' = Requeue(upload_queue, wbatch)
    /\ queue_lock' = NoThread
    /\ wbatch' = <<>>
    /\ wresp' = NoResponse
    /\ wpc' = "loop"
    /\ UNCHANGED <<running, total_uploaded, producerVars, wload, wlate, wcalls,
                   mainVars, delivered, retired>>
    /\ UNCHANGED <<formatVars, receiverVars, packetVars, supabaseVars>>

----------------------------------------------------------------------------
\* The main thread: the receiver loop's _print_stats -> get_stats

\* get_stats: with self.queue_lock:
StatsAcquire ==
    /\ spc = "none"
    /\ mpc = "loop"
    /\ queue_lock = NoThread
    /\ queue_lock' = "main"
    /\ mpc' = "stats"
    /\ UNCHANGED <<upload_queue, running, total_uploaded, producerVars,
                   workerVars, spc, sbatch, sresp, sload, scalls,
                   delivered, retired>>
    /\ UNCHANGED <<formatVars, receiverVars, packetVars, supabaseVars>>

\* queue_size = len(self.upload_queue), and the lock is released
StatsRead ==
    /\ spc = "none"
    /\ mpc = "stats"
    /\ queue_lock' = NoThread
    /\ mpc' = "loop"
    /\ UNCHANGED <<upload_queue, running, total_uploaded, producerVars,
                   workerVars, spc, sbatch, sresp, sload, scalls,
                   delivered, retired>>
    /\ UNCHANGED <<formatVars, receiverVars, packetVars, supabaseVars>>

----------------------------------------------------------------------------
\* The main thread: signal_handler -> shutdown(). The handler runs on the main
\* thread between two of its bytecodes, so what the main thread was doing
\* (mpc) stays suspended while the handler runs.

\* the signal arrives: signal_handler is entered and calls receiver.stop()
Signal ==
    /\ spc = "none"
    /\ spc' = "stop"
    /\ UNCHANGED <<upload_queue, queue_lock, running, total_uploaded,
                   producerVars, workerVars, mpc, sbatch, sresp, sload,
                   scalls, delivered, retired>>
    /\ UNCHANGED <<formatVars, receiverVars, packetVars, supabaseVars>>

\* a stop() whose try block has no except clause: an error raised by
\* unsubscribe or close leaves the signal handler before uploader.shutdown()
ReceiverStopRaises(o) ==
    /\ spc = "stop"
    /\ receiver_running' = FALSE
    /\ interface' = IF o = "closed" THEN "closed" ELSE interface
    /\ spc' = IF o = "closed" THEN "shutdown" ELSE "returned"
    /\ UNCHANGED <<upload_queue, queue_lock, running, total_uploaded,
                   producerVars, workerVars, mpc, sbatch, sresp, sload,
                   scalls, delivered, retired>>
    /\ UNCHANGED <<formatVars, packetVars, supabaseVars>>

\* receiver.stop(): self.running = False, then unsubscribe and close inside
\* try/except Exception; an error is logged and stop() returns
ReceiverStop(o) ==
    /\ spc = "stop"
    /\ receiver_running' = FALSE
    /\ interface' = IF o = "closed" THEN "closed" ELSE interface
    /\ spc' = "shutdown"
    /\ UNCHANGED <<upload_queue, queue_lock, running, total_uploaded,
                   producerVars, workerVars, mpc, sbatch, sresp, sload,
                   scalls, delivered, retired>>
    /\ UNCHANGED <<formatVars, packetVars, supabaseVars>>

\* self.running = False
ShutdownStop ==
    /\ spc = "shutdown"
    /\ running' = FALSE
    /\ spc' = "acquire"
    /\ UNCHANGED <<upload_queue, queue_lock, total_uploaded, producerVars,
                   workerVars, mpc, sbatch, sresp, sload, scalls,
                   delivered, retired>>
    /\ UNCHANGED <<formatVars, receiverVars, packetVars, supabaseVars>>

\* with self.queue_lock: in shutdown, and in _upload_batch's requeue branches
\* when shutdown called it
ShutdownAcquire ==
    /\ spc \in {"acquire", "requeue_acquire"}
    /\ queue_lock = NoThread
    /\ queue_lock' = "main"
    /\ spc' = IF spc = "acquire" THEN "flush" ELSE "requeue"
    /\ UNCHANGED <<upload_queue, running, total_uploaded, producerVars,
                   workerVars, mpc, sbatch, sresp, sload, scalls,
                   delivered, retired>>
    /\ UNCHANGED <<formatVars, receiverVars, packetVars, supabaseVars>>

\* if self.upload_queue: self._upload_batch(self.upload_queue) posts the queue;
\* an empty queue leaves the with block
ShutdownFlush ==
    /\ spc = "flush"
    /\ IF Len(upload_queue) = 0
       THEN /\ queue_lock' = NoThread
            /\ spc' = "join"
            /\ UNCHANGED <<sbatch, scalls>>
       ELSE /\ sbatch' = FlushBatch(upload_queue)
            /\ scalls' = scalls + 1
            /\ spc' = "post"
            /\ UNCHANGED queue_lock
    /\ UNCHANGED <<upload_queue, running, total_uploaded, producerVars,
                   workerVars, mpc, sresp, sload, delivered, retired>>
    /\ UNCHANGED <<formatVars, receiverVars, packetVars, supabaseVars>>

\* self.upload_session.post(url, json=batch, timeout=30) ends
ShutdownResponse(o) ==
    /\ spc = "post"
    /\ sresp' = o
    /\ spc' = "handle"
    /\ UNCHANGED <<upload_queue, queue_lock, running, total_uploaded,
                   producerVars, workerVars, mpc, sbatch, sload, scalls,
                   delivered, retired>>
    /\ UNCHANGED <<formatVars, receiverVars, packetVars, supabaseVars>>

\* _upload_batch after the post, called by shutdown with batch the queue itself
ShutdownHandle ==
    /\ spc = "handle"
    /\ IF IsSuccess(sresp)
       THEN /\ sload' = total_uploaded
            /\ spc' = "count"
            /\ delivered' = delivered \cup Range(sbatch)
       ELSE IF IsRequeued(sresp)
       THEN /\ spc' = "requeue_acquire"
            /\ UNCHANGED <<sload, delivered>>
       ELSE /\ spc' = "clear"
            /\ UNCHANGED <<sload, delivered>>
    /\ UNCHANGED <<upload_queue, queue_lock, running, total_uploaded,
                   producerVars, workerVars, mpc, sbatch, sresp, scalls,
                   retired>>
    /\ UNCHANGED <<formatVars, receiverVars, packetVars, supabaseVars>>

\* self.total_uploaded += len(batch): the store; batch is self.upload_queue
ShutdownCount ==
    /\ spc = "count"
    /\ total_uploaded' = Counted(sload, upload_queue)
    /\ sload' = 0
    /\ spc' = "clear"
    /\ UNCHANGED <<upload_queue, queue_lock, running, producerVars,
                   workerVars, mpc, sbatch, sresp, scalls, delivered, retired>>
    /\ UNCHANGED <<formatVars, receiverVars, packetVars, supabaseVars>>

\* _upload_batch has returned: self.upload_queue.clear() and the with block
\* ends. (After a requeue, which needs the lock shutdown already holds, the
\* queue would hold the batch twice before the clear.)
ShutdownClear ==
    /\ spc \in {"clear", "requeue"}
    /\ retired' = retired \cup Range(upload_queue)
    /\ upload_queue' = <<>>
    /\ queue_lock' = NoThread
    /\ spc' = "join"
    /\ UNCHANGED <<running, total_uploaded, producerVars, workerVars, mpc,
                   sbatch, sresp, sload, scalls, delivered>>
    /\ UNCHANGED <<formatVars, receiverVars, packetVars, supabaseVars>>

\* if self.upload_thread.is_alive(): self.upload_thread.join(timeout=10)
\* returns when the worker has ended or after the timeout
ShutdownJoin ==
    /\ spc = "join"
    /\ spc' = "returned"
    /\ UNCHANGED <<upload_queue, queue_lock, running, total_uploaded,
                   producerVars, workerVars, mpc, sbatch, sresp, sload,
                   scalls, delivered, retired>>
    /\ UNCHANGED <<formatVars, receiverVars, packetVars, supabaseVars>>

----------------------------------------------------------------------------
Next ==
    \/ \E p \in Producers : AddFormat(p)
    \/ \E p \in Producers : AddAcquire(p)
    \/ \E p \in Producers : AddAppend(p)
    \/ WorkerLoop
    \/ WorkerWake
    \/ WorkerError
    \/ WorkerPause
    \/ WorkerAcquire
    \/ WorkerDrain
    \/ \E o \in Outcomes : WorkerResponse(o)
    \/ WorkerHandle
    \/ WorkerCount
    \/ WorkerRequeueAcquire
    \/ WorkerRequeue
    \/ StatsAcquire
    \/ StatsRead
    \/ Signal
    \/ \E o \in StopOutcomes : ReceiverStop(o)
    \/ ShutdownStop
    \/ ShutdownAcquire
    \/ ShutdownFlush
    \/ \E o \in Outcomes : ShutdownResponse(o)
    \/ ShutdownHandle
    \/ ShutdownCount
    \/ ShutdownClear
    \/ ShutdownJoin

Spec == Init /\ [][Next]_vars

----------------------------------------------------------------------------
\* The normalizer on its own: one metrics group of one packet is formatted.
\* Every metrics dict and packet over the keys read and over Values is an input.

FormatInit ==
    /\ PipelineInit
    /\ fgroup \in Groups
    /\ fmetrics \in Dicts(GroupKeys(fgroup))
    /\ fpacket \in Dicts(PacketKeys)
    /\ frecord = NoRecord
    /\ ReceiverInit
    /\ SupabaseInit

\* device_data = self._format_device_metrics(node_id, telemetry['deviceMetrics'], ...)
FormatDeviceMetrics ==
    /\ fgroup = "deviceMetrics"
    /\ frecord = NoRecord
    /\ frecord' = format_device_metrics(fmetrics, fpacket)
    /\ UNCHANGED <<upload_queue, queue_lock, running, total_uploaded,
                   producerVars, workerVars, mainVars, delivered, retired,
                   fgroup, fmetrics, fpacket>>
    /\ UNCHANGED <<receiverVars, packetVars, supabaseVars>>

\* env_data = self._format_environment_metrics(node_id, telemetry['environmentMetrics'], ...)
FormatEnvironmentMetrics ==
    /\ fgroup = "environmentMetrics"
    /\ frecord = NoRecord
    /\ frecord' = format_environment_metrics(fmetrics, fpacket)
    /\ UNCHANGED <<upload_queue, queue_lock, running, total_uploaded,
                   producerVars, workerVars, mainVars, delivered, retired,
                   fgroup, fmetrics, fpacket>>
    /\ UNCHANGED <<receiverVars, packetVars, supabaseVars>>

\* air_data = self._format_air_quality_metrics(node_id, telemetry['airQualityMetrics'], ...)
FormatAirQualityMetrics ==
    /\ fgroup = "airQualityMetrics"
    /\ frecord = NoRecord
    /\ frecord' = format_air_quality_metrics(fmetrics, fpacket)
    /\ UNCHANGED <<upload_queue, queue_lock, running, total_uploaded,
                   producerVars, workerVars, mainVars, delivered, retired,
                   fgroup, fmetrics, fpacket>>
    /\ UNCHANGED <<receiverVars, packetVars, supabaseVars>>

FormatNext ==
    \/ FormatDeviceMetrics
    \/ FormatEnvironmentMetrics
    \/ FormatAirQualityMetrics

FormatSpec == FormatInit /\ [][FormatNext]_vars

----------------------------------------------------------------------------
\* The receiver on its own: the radio library's thread calls _on_receive with
\* one packet after another; a TELEMETRY_APP packet goes to add_telemetry,
\* which looks at the three metrics groups in turn. Every packet of Packets is
\* an input. The queue holds PacketRecord values here.

\* what these steps leave alone
packetFrame ==
    <<queue_lock, running, total_uploaded, producerVars, workerVars, mainVars,
      delivered, retired, formatVars, receiverVars, supabaseVars>>

\* _on_receive is called: self.packets_received += 1
OnReceive(packet) ==
    /\ rpc = "idle"
    /\ rseen < MaxPackets
    /\ rseen' = rseen + 1
    /\ rpacket' = packet
    /\ packets_received' = packets_received + 1
    /\ rpc' = "portnum"
    /\ UNCHANGED <<upload_queue, telemetry_packets, packetFrame>>

\* a handler that takes every packet for a telemetry packet
OnReceivePortnumAny ==
    /\ rpc = "portnum"
    /\ telemetry_packets' = telemetry_packets + 1
    /\ rpc' = "device"
    /\ UNCHANGED <<upload_queue, packets_received, rpacket, rseen, packetFrame>>

\* if packet.get('decoded', {}).get('portnum') == 'TELEMETRY_APP':
\* self.telemetry_packets += 1 and add_telemetry is called; any other packet
\* ends the handler
OnReceivePortnum ==
    /\ rpc = "portnum"
    /\ IF rpacket.portnum = "TELEMETRY_APP"
       THEN /\ telemetry_packets' = telemetry_packets + 1
            /\ rpc' = "device"
            /\ UNCHANGED rpacket
       ELSE /\ rpc' = "idle"
            /\ rpacket' = NoPacket
            /\ UNCHANGED telemetry_packets
    /\ UNCHANGED <<upload_queue, packets_received, rseen, packetFrame>>

\* one group of add_telemetry: if g in telemetry, the group is formatted, and
\* the record, if there is one, is appended under queue_lock
AddGroup(g) ==
    IF GroupPresent(rpacket, g) /\ FormatReturnsRecord(rpacket, g)
    THEN /\ queue_lock = NoThread
         /\ upload_queue' = Enqueue(upload_queue, PacketRecord(rseen, g))
    ELSE UNCHANGED upload_queue

\* an add_telemetry in which a group that cannot be formatted raises up to the
\* method's own except clause: the groups after it are not looked at
AddDeviceMetricsAborts ==
    /\ rpc = "device"
    /\ AddGroup("deviceMetrics")
    /\ rpc' = IF GroupPresent(rpacket, "deviceMetrics")
                    /\ ~FormatReturnsRecord(rpacket, "deviceMetrics")
              THEN "log"
              ELSE "environment"
    /\ UNCHANGED <<packets_received, telemetry_packets, rpacket, rseen, packetFrame>>

\* if 'deviceMetrics' in telemetry: ...
AddDeviceMetrics ==
    /\ rpc = "device"
    /\ AddGroup("deviceMetrics")
    /\ rpc' = "environment"
    /\ UNCHANGED <<packets_received, telemetry_packets, rpacket, rseen, packetFrame>>

\* if 'environmentMetrics' in telemetry: ...
AddEnvironmentMetrics ==
    /\ rpc = "environment"
    /\ AddGroup("environmentMetrics")
    /\ rpc' = "air_quality"
    /\ UNCHANGED <<packets_received, telemetry_packets, rpacket, rseen, packetFrame>>

\* if 'airQualityMetrics' in telemetry: ...
AddAirQualityMetrics ==
    /\ rpc = "air_quality"
    /\ AddGroup("airQualityMetrics")
    /\ rpc' = "log"
    /\ UNCHANGED <<packets_received, telemetry_packets, rpacket, rseen, packetFrame>>

\* add_telemetry has returned; _on_receive logs the groups (an error raised by
\* _summarize_metrics is caught by its except clause) and returns
OnReceiveLog ==
    /\ rpc = "log"
    /\ rpc' = "idle"
    /\ rpacket' = NoPacket
    /\ UNCHANGED <<upload_queue, packets_received, telemetry_packets, rseen,
                   packetFrame>>

PacketNext ==
    \/ \E packet \in Packets : OnReceive(packet)
    \/ OnReceivePortnum
    \/ AddDeviceMetrics
    \/ AddEnvironmentMetrics
    \/ AddAirQualityMetrics
    \/ OnReceiveLog

PacketSpec == Init /\ [][PacketNext]_vars

----------------------------------------------------------------------------
\* SupabaseUploader with its two callers: the packet-callback thread, which
\* runs add_reading (and upload_batch from it once BATCH_SIZE readings are
\* pending), and the main loop of MeshtasticDataReader.run, which runs
\* upload_batch periodically. A reading is identified by a number.

\* what these steps leave alone
supabaseFrame ==
    <<upload_queue, queue_lock, running, total_uploaded, producerVars,
      workerVars, mainVars, delivered, retired, formatVars, receiverVars,
      packetVars>>

\* add_reading: self.pending_readings.append(reading)
AddReading ==
    /\ upc["callback"] = "idle"
    /\ nextReading <= MaxReadings
    /\ pending_readings' = Append(pending_readings, nextReading)
    /\ nextReading' = nextReading + 1
    /\ upc' = [upc EXCEPT !["callback"] = "check"]
    /\ UNCHANGED <<payload, uresp, acked, supabaseFrame>>

\* add_reading: if len(self.pending_readings) >= BATCH_SIZE: self.upload_batch()
AddReadingCheck ==
    /\ upc["callback"] = "check"
    /\ upc' = [upc EXCEPT !["callback"] =
                  IF Len(pending_readings) >= BATCH_SIZE THEN "build" ELSE "idle"]
    /\ UNCHANGED <<pending_readings, payload, uresp, nextReading, acked,
                   supabaseFrame>>

\* run: the interval has passed and pending_readings is not empty:
\* self.uploader.upload_batch()
PeriodicUpload ==
    /\ upc["main"] = "idle"
    /\ Len(pending_readings) > 0
    /\ upc' = [upc EXCEPT !["main"] = "build"]
    /\ UNCHANGED <<pending_readings, payload, uresp, nextReading, acked,
                   supabaseFrame>>

\* upload_batch: return if nothing is pending, else build the payload from
\* all the pending readings
UploadBuild(t) ==
    /\ upc[t] = "build"
    /\ IF Len(pending_readings) = 0
       THEN /\ upc' = [upc EXCEPT ![t] = "idle"]
            /\ UNCHANGED payload
       ELSE /\ payload' = [payload EXCEPT ![t] = pending_readings]
            /\ upc' = [upc EXCEPT ![t] = "post"]
    /\ UNCHANGED <<pending_readings, uresp, nextReading, acked, supabaseFrame>>

\* upload_batch: self.session.post(..., json=payload, timeout=30) ends
UploadResponse(t, o) ==
    /\ upc[t] = "post"
    /\ uresp' = [uresp EXCEPT ![t] = o]
    /\ upc' = [upc EXCEPT ![t] = "handle"]
    /\ UNCHANGED <<pending_readings, payload, nextReading, acked, supabaseFrame>>

\* upload_batch after the post: on status 200 response.json() and result.get
\* are evaluated and self.pending_readings.clear() runs; any other status is
\* logged; an exception (of the post, or of response.json()) is logged
UploadHandle(t) ==
    /\ upc[t] = "handle"
    /\ pending_readings' = IF Cleared(uresp[t]) THEN <<>> ELSE pending_readings
    /\ acked' = IF uresp[t].kind = "status" /\ uresp[t].code = 200
                THEN acked \cup Range(payload[t])
                ELSE acked
    /\ payload' = [payload EXCEPT ![t] = <<>>]
    /\ uresp' = [uresp EXCEPT ![t] = NoAnswer]
    /\ upc' = [upc EXCEPT ![t] = "idle"]
    /\ UNCHANGED <<nextReading, supabaseFrame>>

SupabaseNext ==
    \/ AddReading
    \/ AddReadingCheck
    \/ PeriodicUpload
    \/ \E t \in UploadThreads : UploadBuild(t)
    \/ \E t \in UploadThreads : \E o \in Answers : UploadResponse(t, o)
    \/ \E t \in UploadThreads : UploadHandle(t)

SupabaseSpec == Init /\ [][SupabaseNext]_vars

----------------------------------------------------------------------------
\* Scheduling: a thread that can take a step eventually takes it, and a thread
\* waiting for queue_lock gets it if it is free again and again. A post ends
\* (timeout=30), and get_stats, once it holds the lock, releases it unless the
\* signal handler has suspended it. The arrival of the signal, of packets and
\* of the receiver loop's statistics is not forced.

WorkerStep ==
    \/ WorkerLoop
    \/ WorkerWake
    \/ WorkerPause
    \/ WorkerDrain
    \/ \E o \in Outcomes : WorkerResponse(o)
    \/ WorkerHandle
    \/ WorkerCount
    \/ WorkerRequeue

ShutdownStep ==
    \/ \E o \in StopOutcomes : ReceiverStop(o)
    \/ ShutdownStop
    \/ ShutdownFlush
    \/ \E o \in Outcomes : ShutdownResponse(o)
    \/ ShutdownHandle
    \/ ShutdownCount
    \/ ShutdownClear
    \/ ShutdownJoin

Fairness ==
    /\ WF_vars(WorkerStep)
    /\ SF_vars(WorkerWake)
    /\ SF_vars(WorkerAcquire)
    /\ SF_vars(WorkerRequeueAcquire)
    /\ WF_vars(ShutdownStep)
    /\ SF_vars(ShutdownAcquire)
    /\ WF_vars(StatsRead)
    /\ \A p \in Producers : WF_vars(AddAppend(p)) /\ SF_vars(AddAcquire(p))

FairSpec == Spec /\ Fairness

----------------------------------------------------------------------------
\* Vocabulary of the properties

\* the records add_telemetry has appended to upload_queue so far
Appended == (1..(nextId - 1)) \ {arec[p] : p \in Producers}

\* how many times r occurs in s
Occurrences(s, r) == Cardinality({i \in 1..Len(s) : s[i] = r})

\* the worker's call of _upload_batch returns without a confirmed success
WorkerUploadReturnsUnconfirmed == wpc \in {"handle", "requeue"} /\ wpc' = "loop"

\* the worker's call of _upload_batch returns
WorkerUploadReturns == wpc \in {"handle", "count", "requeue"} /\ wpc' = "loop"

\* shutdown's call of _upload_batch returns without a confirmed success
FlushReturnsUnconfirmed == spc \in {"handle", "requeue"} /\ spc' \in {"clear", "join"}

\* the positions of shutdown() between its upload call and the clear
FlushInProgress == spc \in {"post", "handle", "count", "requeue_acquire", "requeue", "clear"}

----------------------------------------------------------------------------
\* C1: whenever a call of _upload_batch returns without a confirmed success
\* (non-success status, transport error or any other exception), every record
\* of its batch is in upload_queue.
C1_NoBatchDropped ==
    [][/\ WorkerUploadReturnsUnconfirmed => Range(wbatch) \subseteq Range(upload_queue')
       /\ (spc = "handle" /\ spc' = "clear") => Range(sbatch) \subseteq Range(upload_queue')]_vars

\* C2: every record that was enqueued and was not part of an upload confirmed
\* successful is in upload_queue or in the batch a thread is uploading.
C2_UnconfirmedRecordsHeld ==
    \A r \in Appended :
        r \notin delivered => r \in Range(upload_queue) \cup Range(wbatch)

\* C3: once shutdown() is called it eventually returns.
C3_ShutdownReturns == (spc = "shutdown") ~> (spc = "returned")

C5_FailRequeuesSuccessCounts ==
    [][WorkerUploadReturns =>
          IF IsSuccess(wresp)
          THEN /\ total_uploaded' = total_uploaded + Len(wbatch)
               /\ Len(upload_queue') = Len(upload_queue)
          ELSE /\ Len(upload_queue') = Len(upload_queue) + Len(wbatch)
               /\ total_uploaded' = total_uploaded]_vars

\* C6: the queue loses and duplicates no record: every enqueued record is, once,
\* in the queue, in the batch the worker drained, or in a batch whose upload
\* call has ended; a record not yet enqueued is in none of them; and the batch
\* of the final flush shares no record with the worker's batch.
C6_NoLossNoDuplicate ==
    /\ \A r \in Appended :
          Occurrences(upload_queue, r) + Occurrences(wbatch, r)
              + (IF r \in retired THEN 1 ELSE 0) = 1
    /\ (Range(upload_queue) \cup Range(wbatch) \cup retired) \subseteq Appended
    /\ FlushInProgress => Range(sbatch) \cap Range(wbatch) = {}

\* two callers are inside add_telemetry, one holding queue_lock and one waiting
\* for it, while the worker holds a drained batch
C6_Witness ==
    /\ wpc = "post"
    /\ apc["p1"] = "append"
    /\ apc["p2"] = "acquire"
    /\ upload_queue = <<>>
    /\ retired = {}

\* the worker's batch and the final flush are being uploaded at once
C6_WitnessTwoDrains ==
    /\ wpc = "post"
    /\ spc = "post"
    /\ \E p \in Producers : apc[p] = "acquire"

\* C7: an upload call is made by the worker thread only, and never by a thread
\* that holds queue_lock.
C7_NoUploadUnderLock ==
    /\ wpc = "post" => queue_lock # "worker"
    /\ spc # "post"

\* C8: when shutdown() finds k >= 1 records in the queue it issues one upload
\* call, with all k records in queue order; it issues no second call, and it
\* returns only after that call has ended.
C8_FinalFlushOneCall ==
    /\ [][(spc = "flush" /\ spc' # spc /\ upload_queue # <<>>)
             => (spc' = "post" /\ scalls' = 1 /\ sbatch' = upload_queue)]_vars
    /\ [](scalls <= 1)
    /\ [](FlushInProgress => (scalls = 1 /\ sbatch = upload_queue /\ queue_lock = "main"))
    /\ []((spc \in {"join", "returned"} /\ scalls = 1) => sresp # NoResponse)

\* shutdown() has returned after one upload call with more records than a batch
C8_Witness ==
    /\ spc = "returned"
    /\ scalls = 1
    /\ Len(sbatch) > UPLOAD_BATCH_SIZE
    /\ IsSuccess(sresp)

\* C9: a tick whose sleep ended after shutdown() set running to false drains no
\* batch (and so uploads nothing).
C9_NoTickAfterStop ==
    [][(wpc = "drain" /\ wpc' = "post") => ~wlate]_vars

\* every upload call of the worker is answered with success
UploadsSucceed == (wpc = "post" /\ wpc' = "handle") => IsSuccess(wresp')

\* C10: if shutdown() is never called and from some point on every upload call
\* succeeds, every enqueued record is eventually part of a successful upload.
C10_EventuallyDelivered ==
    (<>[][UploadsSucceed]_vars /\ [](spc = "none"))
        => \A r \in 1..MaxRecords : (r \in Appended) ~> (r \in delivered)

----------------------------------------------------------------------------
\* the post was answered with a status code in 200..299
Answered2xx(resp) == resp.kind = "status" /\ resp.code \in 200..299

\* C11: an upload answered with any status code in 200..299 is treated as
\* success: the status test takes the branch that adds len(batch) to
\* total_uploaded, and the batch is not put back in the queue.
C11_Any2xxIsSuccess ==
    [][(wpc = "handle" /\ wpc' # wpc /\ Answered2xx(wresp))
          => (wpc' = "count" /\ wload' = total_uploaded)]_vars

----------------------------------------------------------------------------
\* a _format_* function has returned its record
Formatted == frecord # NoRecord

\* C12: for every air-quality metrics input, pm25_ugm3 is pm25Standard whenever
\* that key is present, whatever its value (zero included); otherwise it is
\* pm25Environmental when that is present; otherwise it is absent. The same
\* holds for pm10_ugm3 and pm100_ugm3.
C12_StandardWheneverPresent ==
    (fgroup = "airQualityMetrics" /\ Formatted) =>
        LET Rule(standard, environmental) ==
                IF standard \in DOMAIN fmetrics THEN Some(fmetrics[standard])
                ELSE IF environmental \in DOMAIN fmetrics
                     THEN Some(fmetrics[environmental])
                     ELSE None
        IN  /\ frecord.pm25_ugm3 = Rule("pm25Standard", "pm25Environmental")
            /\ frecord.pm10_ugm3 = Rule("pm10Standard", "pm10Environmental")
            /\ frecord.pm100_ugm3 = Rule("pm100Standard", "pm100Environmental")

----------------------------------------------------------------------------
\* C13: the worker's drain of at most N = UPLOAD_BATCH_SIZE records from a
\* queue of M records removes and returns exactly the first min(N, M) records
\* in queue order and leaves the other M - min(N, M) records in their order;
\* when M < N it returns all M and leaves the queue empty.
C13_DrainFirstMin ==
    [][(wpc = "drain" /\ wpc' # wpc) =>
          LET M == Len(upload_queue)
              N == UPLOAD_BATCH_SIZE
              k == IF N < M THEN N ELSE M
          IN  /\ Len(wbatch') = k
              /\ \A i \in 1..k : wbatch'[i] = upload_queue[i]
              /\ Len(upload_queue') = M - k
              /\ \A i \in 1..(M - k) : upload_queue'[i] = upload_queue[k + i]
              /\ (M < N) => (Len(wbatch') = M /\ upload_queue' = <<>>)]_vars

\* a drain took the first two of three queued records and left the third
C13_Witness ==
    /\ wpc = "post"
    /\ wbatch = <<1, 2>>
    /\ upload_queue = <<3>>
    /\ wcalls = 1

\* a drain of a queue shorter than the batch size took all of it
C13_WitnessShortQueue ==
    /\ wpc = "post"
    /\ wbatch = <<1>>
    /\ upload_queue = <<>>
    /\ nextId = 2

----------------------------------------------------------------------------
\* C14: a worker tick issues no upload call when the queue is empty at the
\* tick, and otherwise exactly one upload call, whose batch has between 1 and
\* UPLOAD_BATCH_SIZE records. wcalls counts the calls since the interval sleep.
C14_OneUploadPerTick ==
    /\ [](wcalls <= 1)
    /\ [](wpc = "post" => (Len(wbatch) >= 1 /\ Len(wbatch) <= UPLOAD_BATCH_SIZE))
    /\ [][(wpc = "drain" /\ wpc' # wpc) =>
             IF upload_queue = <<>>
             THEN wcalls' = 0 /\ wpc' = "loop"
             ELSE wcalls' = 1 /\ wpc' = "post"]_vars
    /\ [][(wpc' = "post" /\ wpc # "post") => (wpc = "drain" /\ wcalls' = 1)]_vars

\* a tick has ended after one upload call although records are still queued
C14_Witness ==
    /\ wpc = "loop"
    /\ wcalls = 1
    /\ Len(upload_queue) >= 1
    /\ \A p \in Producers : apc[p] = "idle"

----------------------------------------------------------------------------
\* C15: after an upload that failed with a non-success status or a transport
\* error the worker requeues and returns to the loop test, from where it can
\* only go to the interval sleep (or end): every upload attempt is the first
\* one since the interval sleep returned, so the worker makes no further
\* attempt within the tick and takes no other pause after such a failure.
C15_NoRetryWithinTick ==
    /\ [][(wpc = "handle" /\ wpc' # wpc /\ IsRequeued(wresp))
             => (wpc' = "requeue_acquire" /\ wcalls' = 1)]_vars
    /\ [][(wpc = "requeue" /\ wpc' # wpc) => (wpc' = "loop" /\ wcalls' = 1)]_vars
    /\ [][(wpc = "loop" /\ wpc' # wpc) => wpc' \in {"sleep", "done"}]_vars
    /\ [][(wpc' = "post" /\ wpc # "post") => wcalls = 0]_vars

\* the worker is in the interval sleep after a tick whose one upload failed
\* and was requeued
C15_Witness ==
    /\ wpc = "sleep"
    /\ wcalls = 1
    /\ delivered = {}
    /\ retired = {}
    /\ upload_queue = <<1>>
    /\ nextId = 2

----------------------------------------------------------------------------
\* the threads inside a block that reads or changes upload_queue: the append of
\* add_telemetry, the worker's drain and requeue, the size read of get_stats,
\* and shutdown()'s block from the emptiness test to the clear
Accessing ==
    {p \in Producers : apc[p] = "append"}
    \cup (IF wpc \in {"drain", "requeue"} THEN {"worker"} ELSE {})
    \cup (IF mpc = "stats" \/ spc = "flush" \/ FlushInProgress THEN {"main"} ELSE {})

\* C16: in every reachable state at most one thread is reading or changing
\* upload_queue, and that thread holds queue_lock: every enqueue, drain,
\* requeue, size read and shutdown()'s flush-and-clear happens under the lock,
\* and no step changes the queue unless its thread holds the lock.
C16_QueueAccessExclusive ==
    /\ [](Cardinality(Accessing) <= 1)
    /\ [](\A t \in Accessing : queue_lock = t)
    /\ [][upload_queue' # upload_queue => queue_lock \in Accessing]_vars

\* the worker holds the lock for its requeue while a producer and shutdown()
\* both wait to enter their blocks
C16_Witness ==
    /\ queue_lock = "worker"
    /\ wpc = "requeue"
    /\ apc["p1"] = "acquire"
    /\ spc = "acquire"

----------------------------------------------------------------------------
\* C17: when the worker's upload call returns after a failed upload, the
\* drained batch has been appended to the tail of upload_queue in its original
\* order, behind every record that was in the queue at that moment, and the
\* records already queued keep their order.
C17_FailedBatchAtTail ==
    [][WorkerUploadReturnsUnconfirmed => upload_queue' = upload_queue \o wbatch]_vars

----------------------------------------------------------------------------
\* the keys of the dict literal the three _format_* functions return
RecordKeys ==
    {"sensor_id", "timestamp", "telemetry_type", "location",
     "voltage", "battery_level", "air_util_tx", "uptime_seconds",
     "channel_utilization",
     "temperature_c", "relative_humidity_pct", "barometric_pressure",
     "gas_resistance", "iaq", "wind_direction", "wind_speed",
     "pm25_ugm3", "pm10_ugm3", "pm100_ugm3", "pm1_ugm3",
     "ch3_voltage", "ch3_current",
     "rssi", "snr", "hop_limit", "hop_start", "raw_data"}

\* the record fields each function fills from its metrics dict
DeviceFields ==
    {"voltage", "battery_level", "air_util_tx", "uptime_seconds",
     "channel_utilization"}

EnvironmentFields ==
    {"temperature_c", "relative_humidity_pct", "barometric_pressure",
     "gas_resistance", "iaq", "wind_direction", "wind_speed"}

AirQualityFields == {"pm25_ugm3", "pm10_ugm3", "pm100_ugm3", "pm1_ugm3"}

\* the power-channel fields, which no function fills
PowerFields == {"ch3_voltage", "ch3_current"}

\* the telemetry_type each function writes for its metrics group, and the
\* fields it fills
TypeOfGroup(g) ==
    CASE g = "deviceMetrics" -> "device"
      [] g = "environmentMetrics" -> "environment"
      [] g = "airQualityMetrics" -> "air_quality"

FieldsOfType(t) ==
    CASE t = "device" -> DeviceFields
      [] t = "environment" -> EnvironmentFields
      [] t = "air_quality" -> AirQualityFields

\* C18: every record has the same fixed set of keys whatever its
\* telemetry_type, and only the field group named by telemetry_type may hold
\* values: every field of another group is present and is None.
C18_OneGroupPopulated ==
    Formatted =>
        /\ DOMAIN frecord = RecordKeys
        /\ frecord.telemetry_type = Some(TypeOfGroup(fgroup))
        /\ \A k \in (DeviceFields \cup EnvironmentFields \cup AirQualityFields
                       \cup PowerFields) \ FieldsOfType(frecord.telemetry_type.v) :
               k \in DOMAIN frecord /\ frecord[k] = None

\* an environment record with a temperature, whose device and air-quality
\* fields are None
C18_Witness ==
    /\ Formatted
    /\ fgroup = "environmentMetrics"
    /\ frecord.temperature_c = Some(5)
    /\ frecord.voltage = None
    /\ frecord.pm25_ugm3 = None

----------------------------------------------------------------------------
\* C19: the record produced for a deviceMetrics group has telemetry_type
\* 'device', every environment and air-quality field None, and each device
\* field equal to the input value of its key when the input has the key and
\* None when the input omits it.
C19_DeviceFieldsFromInput ==
    (fgroup = "deviceMetrics" /\ Formatted) =>
        LET Input(key) ==
                IF key \in DOMAIN fmetrics THEN Some(fmetrics[key]) ELSE None
        IN  /\ frecord.telemetry_type = Some("device")
            /\ \A k \in EnvironmentFields \cup AirQualityFields : frecord[k] = None
            /\ frecord.voltage = Input("voltage")
            /\ frecord.battery_level = Input("batteryLevel")
            /\ frecord.air_util_tx = Input("airUtilTx")
            /\ frecord.uptime_seconds = Input("uptimeSeconds")
            /\ frecord.channel_utilization = Input("channelUtilization")

\* a device record made from an input with a voltage of 0, a battery level of
\* 5 and no uptime
C19_Witness ==
    /\ fgroup = "deviceMetrics"
    /\ Formatted
    /\ DOMAIN fmetrics = {"voltage", "batteryLevel"}
    /\ fmetrics["voltage"] = 0
    /\ frecord.voltage = Some(0)
    /\ frecord.battery_level = Some(5)
    /\ frecord.uptime_seconds = None

----------------------------------------------------------------------------
\* C20: for every air-quality metrics input, pm1_ugm3 is the pm10Standard
\* value of the input, None when pm10Standard is missing, whatever the other
\* readings of the input are, pm10Environmental included.
C20_Pm1IsPm10Standard ==
    (fgroup = "airQualityMetrics" /\ Formatted) =>
        frecord.pm1_ugm3 =
            IF "pm10Standard" \in DOMAIN fmetrics
            THEN Some(fmetrics["pm10Standard"])
            ELSE None

\* an air-quality record whose input has pm10Environmental but no
\* pm10Standard: pm10_ugm3 holds the environmental reading, pm1_ugm3 is None
C20_Witness ==
    /\ fgroup = "airQualityMetrics"
    /\ Formatted
    /\ "pm10Standard" \notin DOMAIN fmetrics
    /\ "pm10Environmental" \in DOMAIN fmetrics
    /\ frecord.pm10_ugm3 = Some(5)
    /\ frecord.pm1_ugm3 = None

\* an air-quality record whose input has a pm10Standard of 0: pm1_ugm3 is 0
C20_WitnessZero ==
    /\ fgroup = "airQualityMetrics"
    /\ Formatted
    /\ "pm10Standard" \in DOMAIN fmetrics
    /\ fmetrics["pm10Standard"] = 0
    /\ frecord.pm1_ugm3 = Some(0)

----------------------------------------------------------------------------
\* C23: an exception raised inside a worker tick is caught within the loop:
\* the worker goes to the pause of the except clause and from there back to
\* the loop test, which leads to the next interval sleep while running is
\* true; the worker thread ends only from the loop test, with running false.
C23_WorkerSurvivesException ==
    /\ [][(wpc = "sleep" /\ wpc' # wpc) => wpc' \in {"acquire", "pause"}]_vars
    /\ [][(wpc = "pause" /\ wpc' # wpc) => wpc' = "loop"]_vars
    /\ [][(wpc = "loop" /\ wpc' # wpc /\ running) => wpc' = "sleep"]_vars
    /\ [][(wpc' = "done" /\ wpc # "done") => (wpc = "loop" /\ ~running)]_vars

\* the worker is in the pause after a caught exception, while running is true
\* and a record waits in the queue
C23_Witness ==
    /\ wpc = "pause"
    /\ running
    /\ upload_queue = <<1>>

----------------------------------------------------------------------------
\* C25: receiver.stop() propagates no error raised while unsubscribing or
\* closing the interface: whatever the teardown does, the signal handler goes
\* on from stop() to uploader.shutdown(), and shutdown() starts only after
\* stop() has run.
C25_ShutdownRunsAfterStop ==
    /\ [][(spc = "stop" /\ spc' # spc) => (spc' = "shutdown" /\ ~receiver_running')]_vars
    /\ [][(spc' = "shutdown" /\ spc # "shutdown") => spc = "stop"]_vars
    /\ [](spc \notin {"none", "stop"} => ~receiver_running)
    /\ [](interface = "closed" => ~receiver_running)

\* the teardown raised (the interface was not closed) and shutdown() is in its
\* final flush
C25_Witness ==
    /\ spc = "post"
    /\ interface = "open"
    /\ ~receiver_running
    /\ Len(sbatch) >= 1

----------------------------------------------------------------------------
\* C26: whenever no thread is between the load and the store of
\* self.total_uploaded += len(batch), total_uploaded is the number of records
\* contained in the uploads that were answered with success, also when the
\* worker's upload and the final flush of shutdown() end concurrently.
C26_CounterLosesNoUpdate ==
    (wpc # "count" /\ spc # "count") => total_uploaded = Cardinality(delivered)

----------------------------------------------------------------------------
\* C27: once shutdown() has returned and the worker thread has finished,
\* upload_queue is empty: no record remains queued that will never be uploaded.
C27_QueueEmptyAfterShutdown ==
    (spc = "returned" /\ wpc = "done") => upload_queue = <<>>

----------------------------------------------------------------------------
\* C28: in every reachable state no record occurs twice in upload_queue, and
\* no record is at once in upload_queue and in a batch held by an uploading
\* thread, the worker or the final flush of shutdown().
C28_QueueAndBatchesDisjoint ==
    /\ \A r \in Appended : Occurrences(upload_queue, r) <= 1
    /\ Range(upload_queue) \cap Range(wbatch) = {}
    /\ FlushInProgress => Range(upload_queue) \cap Range(sbatch) = {}

----------------------------------------------------------------------------
\* the records of the n-th packet in the queue, in queue order
FromPacket(n) ==
    LET OfPacket(r) == r.packet = n
    IN  SelectSeq(upload_queue, OfPacket)

\* the queued records of the packets before the n-th
BeforePacket(n) ==
    LET Earlier(r) == r.packet < n
    IN  SelectSeq(upload_queue, Earlier)

\* the records of the groups S of the n-th packet, in the order add_telemetry
\* looks at the groups
RecordsInOrder(n, S) ==
    LET InS(g) == g \in S
        groups == SelectSeq(GroupOrder, InS)
    IN  [i \in 1..Len(groups) |-> PacketRecord(n, groups[i])]

\* the groups the packet being handled has, and those of them that are dicts
PresentGroups == {g \in Groups : GroupPresent(rpacket, g)}

FormattableGroups == {g \in PresentGroups : FormatReturnsRecord(rpacket, g)}

\* C21 as claimed: when add_telemetry returns, it has enqueued exactly one
\* record per metrics group present in the packet's telemetry object, in the
\* order device, environment, air quality, and nothing for a packet without a
\* telemetry object or without any of the groups: the queue has grown by the
\* number of present groups.
C21_OneRecordPerPresentGroup ==
    rpc = "log" =>
        /\ FromPacket(rseen) = RecordsInOrder(rseen, PresentGroups)
        /\ Len(upload_queue)
              = Len(BeforePacket(rseen)) + Cardinality(PresentGroups)

\* C21 amended: when add_telemetry returns, it has enqueued exactly one record
\* per present metrics group whose value can be formatted, in the order device,
\* environment, air quality, behind the records of the packets before; a present
\* group whose formatting raises gives no record; a packet without a telemetry
\* object or without any of the groups gives none.
C21_OneRecordPerFormattedGroup ==
    rpc = "log" =>
        /\ FromPacket(rseen) = RecordsInOrder(rseen, FormattableGroups)
        /\ Len(upload_queue)
              = Len(BeforePacket(rseen)) + Cardinality(FormattableGroups)
        /\ upload_queue = BeforePacket(rseen) \o FromPacket(rseen)

\* add_telemetry has returned for a second packet with all three groups, after
\* a first packet that gave two records
C21_Witness ==
    /\ rpc = "log"
    /\ rseen = 2
    /\ PresentGroups = Groups
    /\ FormattableGroups = Groups
    /\ Len(upload_queue) = 5
    /\ upload_queue[5] = PacketRecord(2, "airQualityMetrics")

----------------------------------------------------------------------------
\* the position add_telemetry goes to after each group
NextGroupPosition(position) ==
    CASE position = "device" -> "environment"
      [] position = "environment" -> "air_quality"
      [] position = "air_quality" -> "log"

\* C22: when formatting one metrics group of a packet raises, only that
\* group's record is skipped: add_telemetry still goes through the groups
\* after it and enqueues the records of the other present groups, and
\* _on_receive returns normally, so that the next packet is handled like any
\* other.
C22_OnlyFailingGroupSkipped ==
    /\ [](rpc = "log" =>
             \A g \in Groups :
                 (PacketRecord(rseen, g) \in Range(upload_queue))
                     <=> (g \in FormattableGroups))
    /\ [][(rpc \in {"device", "environment", "air_quality"} /\ rpc' # rpc)
             => rpc' = NextGroupPosition(rpc)]_vars
    /\ [][(rpc = "log" /\ rpc' # rpc) => (rpc' = "idle" /\ rseen' = rseen)]_vars
    /\ [][(rpc = "idle" /\ rpc' # rpc)
             => (rpc' = "portnum" /\ packets_received' = packets_received + 1)]_vars

\* add_telemetry has returned for a second packet whose deviceMetrics could not
\* be formatted: its environment and air-quality records are queued behind the
\* record of the first packet
C22_Witness ==
    /\ rpc = "log"
    /\ rseen = 2
    /\ PresentGroups = Groups
    /\ FormattableGroups = {"environmentMetrics", "airQualityMetrics"}
    /\ upload_queue = <<PacketRecord(1, "deviceMetrics"),
                        PacketRecord(2, "environmentMetrics"),
                        PacketRecord(2, "airQualityMetrics")>>

----------------------------------------------------------------------------
\* C24: _on_receive increments packets_received for every packet; a packet
\* whose portnum is not TELEMETRY_APP leaves upload_queue and telemetry_packets
\* unchanged and does not reach add_telemetry; a TELEMETRY_APP packet
\* increments telemetry_packets by one.
C24_OnlyTelemetryCounted ==
    /\ [](packets_received = rseen)
    /\ [][rseen' # rseen => packets_received' = packets_received + 1]_vars
    /\ [][(rpc = "portnum" /\ rpc' # rpc /\ rpacket.portnum # "TELEMETRY_APP")
             => /\ telemetry_packets' = telemetry_packets
                /\ upload_queue' = upload_queue
                /\ rpc' = "idle"]_vars
    /\ [][telemetry_packets' # telemetry_packets
             => /\ rpacket.portnum = "TELEMETRY_APP"
                /\ telemetry_packets' = telemetry_packets + 1]_vars
    /\ [](rpc \in {"device", "environment", "air_quality", "log"}
             => rpacket.portnum = "TELEMETRY_APP")
    /\ [][upload_queue' # upload_queue => rpacket.portnum = "TELEMETRY_APP"]_vars

\* a telemetry packet and a packet of another port have been handled: two
\* packets received, one telemetry packet, one record
C24_Witness ==
    /\ rpc = "idle"
    /\ packets_received = 2
    /\ telemetry_packets = 1
    /\ Len(upload_queue) = 1

----------------------------------------------------------------------------
\* C29: in SupabaseUploader no reading added by add_reading is removed from
\* pending_readings unless it was part of a payload acknowledged with status
\* 200, also when add_reading runs while the main loop's upload_batch is
\* posting and then clearing.
C29_NoUnackedReadingRemoved ==
    [][\A r \in Range(pending_readings) \ Range(pending_readings') : r \in acked']_vars

\* C30: upload_batch sends all pending readings in one post; on a 200 response
\* pending_readings becomes empty, and on any other status or any exception
\* pending_readings keeps its content and order, to be sent again with the new
\* readings by a later upload_batch.
C30_ClearedOn200KeptOtherwise ==
    /\ [][\A t \in UploadThreads :
             (upc[t] = "build" /\ upc'[t] = "post") => payload'[t] = pending_readings]_vars
    /\ [][\A t \in UploadThreads :
             (upc[t] = "handle" /\ upc'[t] # "handle") =>
                 IF uresp[t].kind = "status" /\ uresp[t].code = 200
                 THEN pending_readings' = <<>>
                 ELSE pending_readings' = pending_readings]_vars

====
